---- MODULE Spec2Model ----
(***************************************************************************)
(* Model of the core of edu-dent:                                          *)
(*   - SemanticCompressionEngine  (src/app/lib/ai/educational-validator.ts)*)
(*   - EducationalModelRouter     (src/unnamed/part_002)                   *)
(*   - StreamingValidator         (src/unnamed/part_004)                   *)
(*   - SimpleModelRouter          (src/app/lib/ai/model-router-simple.ts)  *)
(*   - CostMonitor                (src/app/lib/ai/cost-monitor.ts)         *)
(*   - EducationalValidator       (src/app/lib/ai/educational-validator.ts)*)
(*   - SimpleEducationalOrchestrator (src/app/lib/ai/rag-system.ts)        *)
(*   - AdvancedEducationalOrchestrator                                     *)
(*                                (src/app/lib/ai/advanced-orchestrator.ts)*)
(*                                                                         *)
(* Texts are sequences of words.  A regular expression of the source is    *)
(* modelled by the set of vocabulary words it matches; the tokenizer       *)
(* (gpt-tokenizer encode) by a per-word token weight, with one token for   *)
(* the "\n" that countTokens puts between two turns.  Fractions are kept   *)
(* as integer pairs or scaled integers.  Timestamps are left out, except   *)
(* in the cost monitor, where they are hours.                              *)
(***************************************************************************)
EXTENDS Integers, Sequences, FiniteSets, TLC

VARIABLES
    conversationHistory,  \* the history handed to compressContext
    memoryLayers,         \* SemanticCompressionEngine.memoryLayers
    compressionResult,    \* value returned by the last compressContext call
    lastMaxTokens,        \* maxTokens of that call, -1 when there is none
    retained,             \* per topic, the turns compressRedundantInfo kept
    repeated              \* the last call repeated the call before it

cvars == <<conversationHistory, memoryLayers, compressionResult,
           lastMaxTokens, retained, repeated>>

VARIABLES
    usageMetrics,         \* EducationalModelRouter.usageMetrics
    routingRequest,       \* arguments of the last routeRequest call
    routingDecision       \* RoutingDecision returned by that call

rvars == <<usageMetrics, routingRequest, routingDecision>>

VARIABLES
    codeBuffer,           \* StreamingValidator.codeBuffer, a list of fragments
    validationResults,    \* StreamingValidator.validationResults
    emitted,              \* the chunk the validation stream pushed last,
                          \* with the code buffer it was computed on
    written,              \* the code chunks written since the last reset(),
                          \* in arrival order
    completed             \* a 'complete' chunk was processed since then

vvars == <<codeBuffer, validationResults, emitted, written, completed>>

VARIABLES
    requests              \* the generateVisualization calls served by one
                          \* orchestrator: position, generated code, and the
                          \* buffer its final validation was computed on

svars == <<requests>>

VARIABLES
    openai,               \* EducationalModelRouter.openai is not null
    anthropic,            \* EducationalModelRouter.anthropic is not null
    execution,            \* the last executeWithModel call and its outcome
    simpleOpenai,         \* SimpleModelRouter.openai is not null
    generation,           \* the last SimpleModelRouter.generate call and
                          \* its outcome
    simpleCall            \* the last generateVisualization call of the
                          \* SimpleEducationalOrchestrator and its outcome

xvars == <<openai, anthropic, execution, simpleOpenai, generation, simpleCall>>

VARIABLES
    call,                 \* the last generateVisualization call: arguments,
                          \* attempts made so far, outcome
    costEntries,          \* CostMonitor.costEntries
    now                   \* the clock, in hours

ovars == <<call, costEntries, now>>

vars == <<cvars, rvars, vvars, svars, xvars, ovars>>

(***************************************************************************)
(* Bounds                                                                  *)
(***************************************************************************)
MaxHistory == 4

MaxRequests == 2

MaxFragments == 4

MaxSessions == 2

MaxClock == 1

Budgets == {0, 20, 35, 8000}

(***************************************************************************)
(* Generic helpers                                                         *)
(***************************************************************************)
Range(s) == {s[i] : i \in 1..Len(s)}

Min(S) == CHOOSE x \in S : \A y \in S : x <= y

Max(S) == CHOOSE x \in S : \A y \in S : x >= y

RECURSIVE SumSeq(_)
SumSeq(s) == IF s = <<>> THEN 0 ELSE s[1] + SumSeq(Tail(s))

RECURSIVE Flatten(_)
Flatten(ss) == IF ss = <<>> THEN <<>> ELSE ss[1] \o Flatten(Tail(ss))

\* A JavaScript Map: pairs in insertion order; set() on a present key keeps
\* the key's position.
MapHas(m, k) == \E i \in 1..Len(m) : m[i].key = k

MapGet(m, k) == m[CHOOSE i \in 1..Len(m) : m[i].key = k].value

MapSet(m, k, v) ==
    IF MapHas(m, k)
    THEN LET i == CHOOSE j \in 1..Len(m) : m[j].key = k
         IN SubSeq(m, 1, i - 1) \o <<[key |-> k, value |-> v]>>
            \o SubSeq(m, i + 1, Len(m))
    ELSE Append(m, [key |-> k, value |-> v])

\* A JavaScript Set kept as a sequence in insertion order.
SetAdd(s, x) == IF x \in Range(s) THEN s ELSE Append(s, x)

(***************************************************************************)
(* Code fragments: the statements a generated visualization is made of     *)
(***************************************************************************)
SelectContainer == "d3.select('#visualization').append('svg');"

AddLabel == "svg.append('text').text('L');"

OnClick == "svg.on('click', f);"

OnKeydown == "svg.on('keydown', f);"

OpenFunction == "function f() {"

CloseBlock == "}"

SelectBody == "d3.select('body').append('div');"

BindData == "svg.selectAll('circle').data(gravity);"

DrawPendulum == "pendulum.draw();"

Blank == " "

\* a pasted text of 400000 characters
Huge == "<400000 characters>"

(***************************************************************************)
(* Conversation turns                                                      *)
(***************************************************************************)
ConversationTurn(r, c, k) == [role |-> r, content |-> c, concept |-> k]

\* The turns a caller may append; concept "" is an absent metadata.concept.
TurnPool ==
    { ConversationTurn("user", <<"hi">>, ""),
      ConversationTurn("user",
          <<"just", "set", "the", "pendulum", "length", "to", "2m">>, ""),
      ConversationTurn("assistant",
          <<"Set", "the", "pendulum", "length", "to", "2m!">>, ""),
      ConversationTurn("user", <<"show">>, "physics") }

\* Turns that state no parameter, formula or visualization request
QuietPool ==
    { ConversationTurn("user", <<"explain", "gravity">>, ""),
      ConversationTurn("assistant",
          <<"a", "pendulum", "uses", "Math.sqrt">>, ""),
      ConversationTurn("user", <<"why">>, ""),
      ConversationTurn("user", <<"hi">>, "") }

\* prompts a caller may pass to generateVisualization
OrchestratorPrompts ==
    { <<"adjust", "length">>, <<"derive", Huge>> }

\* contents a provider call may complete with
ContentPool ==
    { <<>>, <<Blank>>, <<SelectBody>>, <<SelectContainer, AddLabel>> }

\* the turns generateVisualization pushes
OrchestratorTurns ==
    { ConversationTurn("user", p, "") : p \in OrchestratorPrompts }
    \cup { ConversationTurn("assistant", c, "") : c \in ContentPool }

AllTurns == TurnPool \cup QuietPool \cup OrchestratorTurns

toLowerCase(w) == CASE w = "Set" -> "set" [] OTHER -> w

stripPunctuation(w) == CASE w = "2m!" -> "2m" [] OTHER -> w

endsSentence(w) == w \in {"2m!"}

\* regex.test(content) for a case-insensitive alternation of keywords
Matches(content, keywords) ==
    \E i \in 1..Len(content) :
        toLowerCase(stripPunctuation(content[i])) \in keywords

(***************************************************************************)
(* Token estimator: countTokens = encode(join('\n')).length                *)
(***************************************************************************)
wordTokens(w) ==
    CASE w = "2m!"             -> 2
      [] w = "context]:"       -> 2
      [] w = "summary]:"       -> 2
      [] w = "{content:"       -> 4
      [] w = "type:"           -> 3
      [] w = "importance:0.8}" -> 6
      [] w = "[...]"           -> 3
      [] w = Huge              -> 100000
      [] OTHER                 -> 1

RECURSIVE textTokens(_)
textTokens(content) ==
    IF content = <<>> THEN 0
    ELSE wordTokens(content[1]) + textTokens(Tail(content))

\* tokens of `${role}: ${content}`
turnTokens(turn) == 2 + textTokens(turn.content)

countTokens(turns) ==
    IF turns = <<>> THEN 0
    ELSE SumSeq([i \in 1..Len(turns) |-> turnTokens(turns[i])])
         + (Len(turns) - 1)

(***************************************************************************)
(* Topic segmentation                                                      *)
(***************************************************************************)
TopicPatterns ==
    << [topic |-> "physics",
        words |-> {"pendulum", "wave", "motion", "force", "energy", "momentum"}],
       [topic |-> "math",
        words |-> {"derivative", "integral", "calculus", "algebra", "geometry",
                   "vector"}],
       [topic |-> "chemistry",
        words |-> {"molecule", "reaction", "element", "compound", "periodic"}],
       [topic |-> "visualization",
        words |-> {"d3", "chart", "graph", "animation", "interactive",
                   SelectContainer, SelectBody}] >>

extractTopic(turn) ==
    IF turn.concept # "" THEN turn.concept
    ELSE LET hits == {i \in 1..Len(TopicPatterns) :
                         Matches(turn.content, TopicPatterns[i].words)}
         IN IF hits = {} THEN "general" ELSE TopicPatterns[Min(hits)].topic

\* extractTopic of every turn of the pool, evaluated once
TopicOf == [t \in AllTurns |-> extractTopic(t)]

RECURSIVE segmentByTopics(_)
segmentByTopics(history) ==
    IF history = <<>> THEN <<>>
    ELSE LET before == segmentByTopics(SubSeq(history, 1, Len(history) - 1))
             turn   == history[Len(history)]
             topic  == TopicOf[turn]
             sofar  == IF MapHas(before, topic) THEN MapGet(before, topic)
                                                ELSE <<>>
         IN MapSet(before, topic, Append(sofar, turn))

(***************************************************************************)
(* Memory layers                                                           *)
(***************************************************************************)
MAX_ACTIVE_TURNS == 10

FillerWords == {"basically", "actually", "just", "really", "very", "quite"}

ParameterWords == {"set", "define", "configure", "parameter"}

FormulaWords == {"formula", "equation", "calculate"}

VisualizationSpecWords == {"create", "generate", "show", "display"}

sliceLast(s, n) == IF Len(s) <= n THEN s ELSE SubSeq(s, Len(s) - n + 1, Len(s))

extractCoreInformation(content) ==
    LET compressed == SelectSeq(content,
                          LAMBDA w : toLowerCase(w) \notin FillerWords)
        n     == Len(compressed)
        ends  == {i \in 1..n : endsSentence(compressed[i])}
        count == Cardinality(ends) + (IF n > 0 /\ n \notin ends THEN 1 ELSE 0)
        plain(s) == [i \in 1..Len(s) |-> stripPunctuation(s[i])]
        lastStart == LET before == {e \in ends : e < n}
                     IN IF before = {} THEN 1 ELSE Max(before) + 1
    IN IF count > 3
       THEN plain(SubSeq(compressed, 1, Min(ends))) \o <<"[...]">>
            \o plain(SubSeq(compressed, lastStart, n))
       ELSE compressed

isKeyDecision(turn) ==
    \/ Matches(turn.content, ParameterWords)
    \/ Matches(turn.content, FormulaWords)
    \/ Matches(turn.content, VisualizationSpecWords)

\* isKeyDecision and extractCoreInformation of every turn of the pool
KeyDecisionOf == [t \in AllTurns |-> isKeyDecision(t)]

CoreInformationOf == [t \in AllTurns |-> extractCoreInformation(t.content)]

extractKeyDecisions(turns) ==
    LET important == SelectSeq(turns, LAMBDA t : KeyDecisionOf[t])
    IN [i \in 1..Len(important) |->
           [content    |-> CoreInformationOf[important[i]],
            type       |-> important[i].role,
            importance |-> 8]]

(***************************************************************************)
(* Redundancy compression                                                  *)
(***************************************************************************)
simplifyContent(content) ==
    LET lowered == [i \in 1..Len(content) |->
                       toLowerCase(stripPunctuation(content[i]))]
    IN SelectSeq(lowered, LAMBDA w : w # "")

\* simplifyContent of every turn of the pool
SimplifiedOf == [t \in AllTurns |-> simplifyContent(t.content)]

\* intersection.size / union.size as <<numerator, denominator>>
calculateSimilarity(str1, str2) ==
    LET words1 == IF str1 = <<>> THEN {""} ELSE Range(str1)
        words2 == IF str2 = <<>> THEN {""} ELSE Range(str2)
    IN <<Cardinality(words1 \cap words2), Cardinality(words1 \cup words2)>>

\* similarity > 0.85
aboveThreshold(sim) == sim[1] * 100 > 85 * sim[2]

\* variant: only the turn retained last is compared
isDuplicate_lastOnly(simplified, uniqueContents) ==
    /\ uniqueContents # <<>>
    /\ aboveThreshold(calculateSimilarity(simplified,
                                          uniqueContents[Len(uniqueContents)]))

isDuplicate(simplified, uniqueContents) ==
    \E j \in 1..Len(uniqueContents) :
        aboveThreshold(calculateSimilarity(simplified, uniqueContents[j]))

\* variant: the contents are compared as written, without simplifyContent
RECURSIVE retainedIndices_rawContent(_, _)
retainedIndices_rawContent(turns, n) ==
    IF n = 0 THEN <<>>
    ELSE LET kept   == retainedIndices_rawContent(turns, n - 1)
             unique == [j \in 1..Len(kept) |-> turns[kept[j]].content]
         IN IF isDuplicate(turns[n].content, unique)
            THEN kept ELSE Append(kept, n)

\* positions in `turns` of the turns pushed to `compressed` among the first n
RECURSIVE retainedIndices(_, _)
retainedIndices(turns, n) ==
    IF n = 0 THEN <<>>
    ELSE LET kept   == retainedIndices(turns, n - 1)
             unique == [j \in 1..Len(kept) |-> SimplifiedOf[turns[kept[j]]]]
         IN IF isDuplicate(SimplifiedOf[turns[n]], unique)
            THEN kept ELSE Append(kept, n)

\* compressed.map(t => t.content).join('\n')
joinContents(turns) ==
    Flatten([i \in 1..Len(turns) |->
                IF i = 1 THEN turns[i].content
                         ELSE <<"\n">> \o turns[i].content])

\* variant: the cache entry is written when compressed.length <= turns.length
RECURSIVE compressRedundantInfo_alwaysCaches(_, _, _)
compressRedundantInfo_alwaysCaches(semanticCache, segments, n) ==
    IF n = 0 THEN semanticCache
    ELSE LET cache == compressRedundantInfo_alwaysCaches(semanticCache,
                                                         segments, n - 1)
             turns == segments[n].value
             kept  == retainedIndices(turns, Len(turns))
             compressed == [i \in 1..Len(kept) |-> turns[kept[i]]]
         IN IF Len(compressed) <= Len(turns)
            THEN MapSet(cache, segments[n].key, joinContents(compressed))
            ELSE cache

RECURSIVE compressRedundantInfo(_, _, _)
compressRedundantInfo(semanticCache, segments, n) ==
    IF n = 0 THEN semanticCache
    ELSE LET cache == compressRedundantInfo(semanticCache, segments, n - 1)
             turns == segments[n].value
             kept  == retainedIndices(turns, Len(turns))
             compressed == [i \in 1..Len(kept) |-> turns[kept[i]]]
         IN IF Len(compressed) < Len(turns)
            THEN MapSet(cache, segments[n].key, joinContents(compressed))
            ELSE cache

\* variant: the key decisions of a pass are appended to those already stored
RECURSIVE storeKeyDecisions_merge(_, _, _)
storeKeyDecisions_merge(projectMemory, segments, n) ==
    IF n = 0 THEN projectMemory
    ELSE LET pm == storeKeyDecisions_merge(projectMemory, segments, n - 1)
             keyDecisions == extractKeyDecisions(segments[n].value)
             stored == IF MapHas(pm, segments[n].key)
                       THEN MapGet(pm, segments[n].key) ELSE <<>>
         IN IF Len(keyDecisions) > 0
            THEN MapSet(pm, segments[n].key, stored \o keyDecisions)
            ELSE pm

RECURSIVE storeKeyDecisions(_, _, _)
storeKeyDecisions(projectMemory, segments, n) ==
    IF n = 0 THEN projectMemory
    ELSE LET pm == storeKeyDecisions(projectMemory, segments, n - 1)
             keyDecisions == extractKeyDecisions(segments[n].value)
         IN IF Len(keyDecisions) > 0
            THEN MapSet(pm, segments[n].key, keyDecisions)
            ELSE pm

RECURSIVE trackConcepts(_, _, _)
trackConcepts(educationalConcepts, segments, n) ==
    IF n = 0 THEN educationalConcepts
    ELSE LET concepts == trackConcepts(educationalConcepts, segments, n - 1)
         IN IF segments[n].key # "general"
            THEN SetAdd(concepts, segments[n].key)
            ELSE concepts

updateMemoryLayers(mem, segments) ==
    LET allTurns == Flatten([i \in 1..Len(segments) |-> segments[i].value])
    IN [activeContext |-> sliceLast(allTurns, MAX_ACTIVE_TURNS),
        projectMemory |->
            storeKeyDecisions(mem.projectMemory, segments, Len(segments)),
        semanticCache |->
            compressRedundantInfo(mem.semanticCache, segments, Len(segments)),
        educationalConcepts |->
            trackConcepts(mem.educationalConcepts, segments, Len(segments))]

(***************************************************************************)
(* Priority-based assembly                                                 *)
(***************************************************************************)
jsonStringify(decisions) ==
    <<"[">>
    \o Flatten([i \in 1..Len(decisions) |->
           <<"{content:">> \o decisions[i].content
           \o <<"type:", decisions[i].type, "importance:0.8}">>])
    \o <<"]">>

summaryTurn(topic, decisions) ==
    ConversationTurn("system",
        <<"[", topic, "context]:">> \o jsonStringify(decisions), topic)

cacheTurn(topic, cachedContent) ==
    ConversationTurn("system",
        <<"[", topic, "summary]:">> \o cachedContent, topic)

\* variant: a loop ends at the first candidate that does not fit
RECURSIVE addCandidates_hardStop(_, _, _, _, _)
addCandidates_hardStop(acc, candidates, n, maxTokens, tenths) ==
    IF n = 0 THEN acc
    ELSE LET sofar  == addCandidates_hardStop(acc, candidates, n - 1,
                                              maxTokens, tenths)
             tokens == countTokens(<<candidates[n]>>)
         IN IF /\ Len(sofar.compressed) = Len(acc.compressed) + n - 1
               /\ 10 * (sofar.currentTokens + tokens) <= tenths * maxTokens
            THEN [compressed    |-> Append(sofar.compressed, candidates[n]),
                  currentTokens |-> sofar.currentTokens + tokens]
            ELSE sofar

\* One loop of priorityBasedCompression over candidates[1..n]; a candidate is
\* pushed when currentTokens + tokens <= maxTokens * tenths / 10.
RECURSIVE addCandidates(_, _, _, _, _)
addCandidates(acc, candidates, n, maxTokens, tenths) ==
    IF n = 0 THEN acc
    ELSE LET sofar  == addCandidates(acc, candidates, n - 1, maxTokens, tenths)
             tokens == countTokens(<<candidates[n]>>)
         IN IF 10 * (sofar.currentTokens + tokens) <= tenths * maxTokens
            THEN [compressed    |-> Append(sofar.compressed, candidates[n]),
                  currentTokens |-> sofar.currentTokens + tokens]
            ELSE sofar

priorityBasedCompression(mem, maxTokens) ==
    LET start == [compressed |-> <<>>, currentTokens |-> 0]
        active == addCandidates(start, mem.activeContext,
                                Len(mem.activeContext), maxTokens, 10)
        summaries == [i \in 1..Len(mem.projectMemory) |->
                         summaryTurn(mem.projectMemory[i].key,
                                     mem.projectMemory[i].value)]
        decisions == addCandidates(active, summaries, Len(summaries),
                                   maxTokens, 10)
        caches == [i \in 1..Len(mem.semanticCache) |->
                      cacheTurn(mem.semanticCache[i].key,
                                mem.semanticCache[i].value)]
        cached == addCandidates(decisions, caches, Len(caches), maxTokens, 9)
    IN cached.compressed

(***************************************************************************)
(* Compression engine: state and operations                                *)
(***************************************************************************)
EmptyMemory ==
    [activeContext |-> <<>>, projectMemory |-> <<>>,
     semanticCache |-> <<>>, educationalConcepts |-> <<>>]

NoResult ==
    [compressed |-> <<>>, compressionRatio |-> <<0, 0>>,
     preservedConcepts |-> <<>>, tokenCount |-> 0]

CInit ==
    /\ conversationHistory = <<>>
    /\ memoryLayers = EmptyMemory
    /\ compressionResult = NoResult
    /\ lastMaxTokens = -1
    /\ retained = <<>>
    /\ repeated = FALSE

\* conversationHistory.push(turn)
AddTurn(turn) ==
    /\ Len(conversationHistory) < MaxHistory
    /\ conversationHistory' = Append(conversationHistory, turn)
    /\ compressionResult' = NoResult
    /\ lastMaxTokens' = -1
    /\ retained' = <<>>
    /\ repeated' = FALSE
    /\ UNCHANGED <<memoryLayers, rvars, vvars, svars, xvars, ovars>>

\* the caller hands compressContext another history, which starts with turn
StartHistory(turn) ==
    /\ conversationHistory' = <<turn>>
    /\ compressionResult' = NoResult
    /\ lastMaxTokens' = -1
    /\ retained' = <<>>
    /\ repeated' = FALSE
    /\ UNCHANGED <<memoryLayers, rvars, vvars, svars, xvars, ovars>>

compressContext(maxTokens) ==
    LET segments == segmentByTopics(conversationHistory)
        mem == updateMemoryLayers(memoryLayers, segments)
        compressed == priorityBasedCompression(mem, maxTokens)
        originalTokens == countTokens(conversationHistory)
        compressedTokens == countTokens(compressed)
    IN /\ memoryLayers' = mem
       /\ compressionResult' =
              [compressed        |-> compressed,
               compressionRatio  |-> <<compressedTokens, originalTokens>>,
               preservedConcepts |-> mem.educationalConcepts,
               tokenCount        |-> compressedTokens]
       /\ lastMaxTokens' = maxTokens
       /\ repeated' = (lastMaxTokens = maxTokens)
       /\ retained' =
              [i \in 1..Len(segments) |->
                  [key   |-> segments[i].key,
                   turns |-> segments[i].value,
                   value |-> retainedIndices(segments[i].value,
                                             Len(segments[i].value))]]
       /\ UNCHANGED <<conversationHistory, rvars, vvars, svars, xvars, ovars>>

(***************************************************************************)
(* Model router.  Complexities and thresholds are scaled by 100000, costs  *)
(* per token by 10000, confidences by 10.                                  *)
(***************************************************************************)
TaskTypes ==
    {"simple_parameter_adjustment", "visualization_generation",
     "complex_educational_concept", "scientific_validation",
     "interactive_features"}

OptimizationGoals == {"cost_optimized", "balanced", "quality_focused"}

\* variant: thresholds ten times higher, on the scale of the complexities
routingThresholds_tenfold ==
    [cost_optimized |-> 115930, balanced |-> 80000, quality_focused |-> 50000]

routingThresholds ==
    [cost_optimized |-> 11593, balanced |-> 8000, quality_focused |-> 5000]

taskComplexityScores ==
    [simple_parameter_adjustment |-> 20000,
     visualization_generation    |-> 50000,
     complex_educational_concept |-> 80000,
     scientific_validation       |-> 90000,
     interactive_features        |-> 60000]

\* variant: scientific_validation declared by the educational tier instead of
\* the validation tier
initializeModels_educationalValidates ==
    << [key |-> "fast",
        value |-> [name |-> "gpt-3.5-turbo", provider |-> "openai",
                   model |-> "gpt-3.5-turbo", costPerToken |-> 5,
                   latency |-> 300,
                   capabilities |-> {"simple_parameter_adjustment",
                                     "visualization_generation"}]],
       [key |-> "educational",
        value |-> [name |-> "gpt-3.5-turbo-16k", provider |-> "openai",
                   model |-> "gpt-3.5-turbo-16k", costPerToken |-> 10,
                   latency |-> 400,
                   capabilities |-> {"visualization_generation",
                                     "complex_educational_concept",
                                     "interactive_features",
                                     "scientific_validation"}]],
       [key |-> "validation",
        value |-> [name |-> "gpt-4", provider |-> "openai",
                   model |-> "gpt-4", costPerToken |-> 300,
                   latency |-> 800,
                   capabilities |-> {"complex_educational_concept"}]] >>

\* the Map built by initializeModels, in insertion order
initializeModels ==
    << [key |-> "fast",
        value |-> [name |-> "gpt-3.5-turbo", provider |-> "openai",
                   model |-> "gpt-3.5-turbo", costPerToken |-> 5,
                   latency |-> 300,
                   capabilities |-> {"simple_parameter_adjustment",
                                     "visualization_generation"}]],
       [key |-> "educational",
        value |-> [name |-> "gpt-3.5-turbo-16k", provider |-> "openai",
                   model |-> "gpt-3.5-turbo-16k", costPerToken |-> 10,
                   latency |-> 400,
                   capabilities |-> {"visualization_generation",
                                     "complex_educational_concept",
                                     "interactive_features"}]],
       [key |-> "validation",
        value |-> [name |-> "gpt-4", provider |-> "openai",
                   model |-> "gpt-4", costPerToken |-> 300,
                   latency |-> 800,
                   capabilities |-> {"scientific_validation",
                                     "complex_educational_concept"}]] >>

models == initializeModels

\* prompts and context texts a caller may pass
PromptPool ==
    { <<"adjust", "length">>,
      <<"visualize", "a", "pendulum">>,
      <<"show", "the", "exact", "formula">> }

ContextPool == { <<>>, <<"##", "Conversation", "Context">> }

HighAccuracyWords == {"scientifically accurate", "precise", "exact", "formula"}

VisualizationTaskWords ==
    {"visualize", "visualise", "show", "display", "animate", "interactive"}

ComplexMathWords ==
    {"integral", "derivative", "differential", "quantum", "relativity"}

analyzePrompt(prompt) ==
    [requiresHighAccuracy |-> Matches(prompt, HighAccuracyWords),
     isVisualizationTask  |-> Matches(prompt, VisualizationTaskWords),
     hasComplexMath       |-> Matches(prompt, ComplexMathWords)]

findCapableModel(taskType) ==
    LET capable == {i \in 1..Len(models) :
                       taskType \in models[i].value.capabilities}
    IN IF capable = {} THEN <<>> ELSE <<models[Min(capable)].value>>

\* text.length of words joined by single spaces
textLength(text) ==
    IF text = <<>> THEN 0
    ELSE SumSeq([i \in 1..Len(text) |->
                    IF text[i] = Huge THEN 400000 ELSE Len(text[i])])
         + (Len(text) - 1)

\* Math.ceil(text.length / 4) for userPrompt + context
estimateTokens(length) == (length + 3) \div 4

\* String.prototype.includes on a model name
nameIncludes(name, part) ==
    CASE name = "gpt-3.5-turbo"     -> part \in {"gpt", "3.5", "turbo"}
      [] name = "gpt-3.5-turbo-16k" -> part \in {"gpt", "3.5", "turbo", "16k"}
      [] name = "gpt-4"             -> part \in {"gpt", "4"}
      [] OTHER                      -> FALSE

\* variant: a capability match adds 0.6 and the result is not capped
calculateConfidence_uncapped(model, taskType, complexity) ==
    LET base == 5
        capable == IF taskType \in model.capabilities THEN base + 6 ELSE base
    IN IF complexity < 30000 /\ nameIncludes(model.name, "fast")
       THEN capable + 2
       ELSE IF complexity > 70000 /\ nameIncludes(model.name, "validation")
            THEN capable + 2
            ELSE capable

calculateConfidence(model, taskType, complexity) ==
    LET base == 5
        capable == IF taskType \in model.capabilities THEN base + 3 ELSE base
        aligned == IF complexity < 30000 /\ nameIncludes(model.name, "fast")
                   THEN capable + 2
                   ELSE IF complexity > 70000
                           /\ nameIncludes(model.name, "validation")
                        THEN capable + 2
                        ELSE capable
    IN IF aligned < 10 THEN aligned ELSE 10

updateMetrics(metrics, modelName, cost) ==
    [metrics EXCEPT
        !.totalRequests = @ + 1,
        !.totalCost = @ + cost,
        !.modelUsage = MapSet(@, modelName,
                              (IF MapHas(@, modelName) THEN MapGet(@, modelName)
                                                       ELSE 0) + 1)]

FallbackReason(taskType) ==
    <<"Fallback: original model not capable of", taskType>>

\* the branch of routeRequest that picks a tier before the capability check
selectModel(complexity, threshold, promptAnalysis) ==
    IF complexity > threshold \/ promptAnalysis.requiresHighAccuracy
    THEN [model  |-> MapGet(models, "validation"),
          reason |-> <<"Complex educational concept requiring high accuracy">>]
    ELSE IF promptAnalysis.isVisualizationTask /\ complexity > 30000
         THEN [model  |-> MapGet(models, "educational"),
               reason |-> <<"D3.js visualization generation task">>]
         ELSE [model  |-> MapGet(models, "fast"),
               reason |-> <<"Simple parameter adjustment or basic task">>]

\* variant: the tier picked first is kept whatever its capabilities
checkCapability_skipped(selected, taskType) == selected

\* the capability check of routeRequest
checkCapability(selected, taskType) ==
    IF taskType \notin selected.model.capabilities
    THEN LET capable == findCapableModel(taskType)
         IN [model  |-> IF capable = <<>> THEN selected.model ELSE capable[1],
             reason |-> FallbackReason(taskType)]
    ELSE selected

NoDecision ==
    [model |-> MapGet(models, "fast"), reason |-> <<>>, estimatedCost |-> 0,
     estimatedLatency |-> 0, confidence |-> 0]

NoRequest ==
    [taskType |-> "", userPrompt |-> <<>>, context |-> <<>>,
     optimizationGoal |-> ""]

RInit ==
    /\ usageMetrics = [totalRequests |-> 0, totalCost |-> 0,
                       modelUsage |-> <<>>, averageLatency |-> 0]
    /\ routingRequest = NoRequest
    /\ routingDecision = NoDecision

routeRequest(taskType, userPrompt, context, optimizationGoal) ==
    LET complexity == taskComplexityScores[taskType]
        threshold == routingThresholds[optimizationGoal]
        promptAnalysis == analyzePrompt(userPrompt)
        selected == checkCapability(
                        selectModel(complexity, threshold, promptAnalysis),
                        taskType)
        estimatedTokens ==
            estimateTokens(textLength(userPrompt) + textLength(context))
        estimatedCost == estimatedTokens * selected.model.costPerToken
    IN /\ usageMetrics.totalRequests < MaxRequests
       /\ usageMetrics' =
              updateMetrics(usageMetrics, selected.model.name, estimatedCost)
       /\ routingRequest' =
              [taskType |-> taskType, userPrompt |-> userPrompt,
               context |-> context, optimizationGoal |-> optimizationGoal]
       /\ routingDecision' =
              [model            |-> selected.model,
               reason           |-> selected.reason,
               estimatedCost    |-> estimatedCost,
               estimatedLatency |-> selected.model.latency,
               confidence       |->
                   calculateConfidence(selected.model, taskType, complexity)]
       /\ UNCHANGED <<cvars, vvars, svars, xvars, ovars>>

(***************************************************************************)
(* Streaming validator.  The code buffer is the list of the fragments      *)
(* written so far; a pattern of the source is the set of fragments it      *)
(* matches.  Scores are scaled by 10; Undefined stands for an absent       *)
(* optional field.                                                         *)
(***************************************************************************)
Undefined == -1

FragmentPool ==
    {SelectContainer, AddLabel, OnClick, OnKeydown, OpenFunction, CloseBlock,
     SelectBody, BindData, DrawPendulum}

educationalPatterns ==
    [hasVisualizationContainer |-> {SelectContainer},
     usesD3                    |-> {SelectContainer, SelectBody},
     hasInteractivity          |-> {OnClick},
     hasAnimation              |-> {},
     hasLabels                 |-> {AddLabel},
     hasScales                 |-> {},
     hasAccessibility          |-> {}]

performancePatterns ==
    [inefficientSelections |-> {},
     missingKeyFunctions   |-> {BindData},
     heavyAnimations       |-> {}]

scientificPatterns ==
    [gravity         |-> {},
     pendulumFormula |-> {}]

\* pattern.test(code) and code.includes(text)
test(pattern, code) == \E i \in 1..Len(code) : code[i] \in pattern

mentionsGravity(code) == test({BindData}, code)

mentionsPendulum(code) == test({DrawPendulum}, code)

mentionsFillOrStroke(code) == test({}, code)

bufferLength(code) == SumSeq([i \in 1..Len(code) |-> Len(code[i])])

ValidationError(t, sev, msg) == [type |-> t, severity |-> sev, message |-> msg]

\* nesting depth after each fragment; acorn.parse succeeds when no block is
\* closed before it is opened and none is left open
RECURSIVE braceDepth(_, _)
braceDepth(code, n) ==
    IF n = 0 THEN 0
    ELSE LET before == braceDepth(code, n - 1)
         IN IF before < 0 THEN before
            ELSE IF code[n] = OpenFunction THEN before + 1
                 ELSE IF code[n] = CloseBlock THEN before - 1
                      ELSE before

parses(code) == braceDepth(code, Len(code)) = 0

checkSyntax(code) ==
    IF parses(code)
    THEN [isValid |-> TRUE, errors |-> <<>>]
    ELSE [isValid |-> FALSE,
          errors  |-> <<ValidationError("syntax", "error", "Unexpected token")>>]

looksLikeCompleteStatement(fragment) == fragment # OpenFunction

checkPerformancePatterns(codeFragment) ==
    (IF codeFragment \in performancePatterns.inefficientSelections
     THEN <<ValidationError("performance", "warning",
                            "Multiple D3 selections detected")>>
     ELSE <<>>)
    \o (IF codeFragment \in performancePatterns.heavyAnimations
        THEN <<ValidationError("performance", "warning",
                               "Potentially heavy animation loop")>>
        ELSE <<>>)

\* variant: syntax errors are recorded without clearing isValid
validateIncremental_keepsValid(code, codeFragment) ==
    LET syntaxCheck == IF looksLikeCompleteStatement(codeFragment)
                       THEN checkSyntax(code)
                       ELSE [isValid |-> TRUE, errors |-> <<>>]
    IN [isValid            |-> TRUE,
        errors             |-> syntaxCheck.errors,
        warnings           |-> checkPerformancePatterns(codeFragment),
        suggestions        |-> <<>>,
        scientificAccuracy |-> Undefined,
        pedagogicalQuality |-> Undefined]

validateIncremental(code, codeFragment) ==
    LET syntaxCheck == IF looksLikeCompleteStatement(codeFragment)
                       THEN checkSyntax(code)
                       ELSE [isValid |-> TRUE, errors |-> <<>>]
        noD3 == IF ~test(educationalPatterns.usesD3, code)
                   /\ bufferLength(code) > 100
                THEN <<ValidationError("semantic", "warning",
                                       "No D3.js usage detected yet")>>
                ELSE <<>>
    IN [isValid            |-> syntaxCheck.isValid,
        errors             |-> syntaxCheck.errors,
        warnings           |-> noD3 \o checkPerformancePatterns(codeFragment),
        suggestions        |-> <<>>,
        scientificAccuracy |-> Undefined,
        pedagogicalQuality |-> Undefined]

\* The CallExpression visitor: a warning per select('#...') whose selector is
\* not a valid id (no fragment of the pool), and a warning per .data() call
\* when the code has neither .join( nor .enter(
performASTValidation(code) ==
    [errors   |-> <<>>,
     warnings |->
         Flatten([i \in 1..Len(code) |->
             IF code[i] = BindData
             THEN <<ValidationError("semantic", "warning",
                       "Data binding without enter/update/exit pattern")>>
             ELSE <<>>])]

\* variant: the penalties of the container and of the interactivity swapped
checkEducationalQuality_swapped(code) ==
    LET noContainer ==
            ~test(educationalPatterns.hasVisualizationContainer, code)
        noInteractivity == ~test(educationalPatterns.hasInteractivity, code)
        noLabels == ~test(educationalPatterns.hasLabels, code)
        qualityScore == 10 - (IF noContainer THEN 1 ELSE 0)
                           - (IF noInteractivity THEN 3 ELSE 0)
                           - (IF noLabels THEN 2 ELSE 0)
    IN [warnings |-> <<>>, suggestions |-> <<>>,
        quality |-> IF qualityScore > 0 THEN qualityScore ELSE 0]

checkEducationalQuality(code) ==
    LET noContainer ==
            ~test(educationalPatterns.hasVisualizationContainer, code)
        noInteractivity == ~test(educationalPatterns.hasInteractivity, code)
        noLabels == ~test(educationalPatterns.hasLabels, code)
        noScales == ~test(educationalPatterns.hasScales, code)
        qualityScore == 10 - (IF noContainer THEN 3 ELSE 0)
                           - (IF noInteractivity THEN 1 ELSE 0)
                           - (IF noLabels THEN 2 ELSE 0)
    IN [warnings |->
            (IF noContainer
             THEN <<ValidationError("educational", "error",
                                    "No #visualization container found")>>
             ELSE <<>>)
            \o (IF noLabels
                THEN <<ValidationError("educational", "warning",
                                       "No text labels found")>>
                ELSE <<>>),
        suggestions |->
            (IF noInteractivity
             THEN <<"Consider adding interactive elements for better engagement">>
             ELSE <<>>)
            \o (IF noScales
                THEN <<"Consider using D3 scales for proper data mapping">>
                ELSE <<>>),
        quality |-> IF qualityScore > 0 THEN qualityScore ELSE 0]

checkScientificAccuracy(code) ==
    LET badGravity == mentionsGravity(code)
                      /\ ~test(scientificPatterns.gravity, code)
        noFormula == mentionsPendulum(code)
                     /\ ~test(scientificPatterns.pendulumFormula, code)
        accuracy == 10 - (IF badGravity THEN 2 ELSE 0)
    IN [warnings |->
            (IF badGravity
             THEN <<ValidationError("educational", "warning",
                                    "Gravity constant may be inaccurate")>>
             ELSE <<>>)
            \o (IF noFormula
                THEN <<ValidationError("educational", "info",
                                       "Pendulum period formula not found")>>
                ELSE <<>>),
        accuracy |-> IF accuracy > 0 THEN accuracy ELSE 0]

\* number of ".append(" in the buffer
appendCount(code) ==
    SumSeq([i \in 1..Len(code) |->
               IF code[i] \in {SelectContainer, AddLabel, SelectBody}
               THEN 1 ELSE 0])

checkPerformanceComplete(code) ==
    IF appendCount(code) > 100
    THEN <<ValidationError("performance", "warning",
                           "High number of append operations")>>
    ELSE <<>>

checkAccessibility(code) ==
    (IF ~test(educationalPatterns.hasAccessibility, code)
     THEN <<"Consider adding ARIA labels for screen reader accessibility">>
     ELSE <<>>)
    \o (IF mentionsFillOrStroke(code)
        THEN <<"Ensure sufficient color contrast for visibility">>
        ELSE <<>>)

\* variant: no early return after a syntax failure
validateComplete_noEarlyExit(code) ==
    LET syntaxCheck == checkSyntax(code)
        educationalCheck == checkEducationalQuality(code)
        scientificCheck == checkScientificAccuracy(code)
        errors == syntaxCheck.errors \o performASTValidation(code).errors
    IN [isValid            |-> Len(errors) = 0,
        errors             |-> errors,
        warnings           |-> performASTValidation(code).warnings
                               \o educationalCheck.warnings
                               \o scientificCheck.warnings
                               \o checkPerformanceComplete(code),
        suggestions        |-> educationalCheck.suggestions
                               \o checkAccessibility(code),
        scientificAccuracy |-> scientificCheck.accuracy,
        pedagogicalQuality |-> educationalCheck.quality]

validateComplete(code) ==
    LET syntaxCheck == checkSyntax(code)
        semanticCheck == performASTValidation(code)
        educationalCheck == checkEducationalQuality(code)
        scientificCheck == checkScientificAccuracy(code)
        errors == semanticCheck.errors
    IN IF ~syntaxCheck.isValid
       THEN [isValid            |-> FALSE,
             errors             |-> syntaxCheck.errors,
             warnings           |-> <<>>,
             suggestions        |-> <<>>,
             scientificAccuracy |-> 10,
             pedagogicalQuality |-> 10]
       ELSE [isValid            |-> Len(errors) = 0,
             errors             |-> errors,
             warnings           |-> semanticCheck.warnings
                                    \o educationalCheck.warnings
                                    \o scientificCheck.warnings
                                    \o checkPerformanceComplete(code),
             suggestions        |-> educationalCheck.suggestions
                                    \o checkAccessibility(code),
             scientificAccuracy |-> scientificCheck.accuracy,
             pedagogicalQuality |-> educationalCheck.quality]

EmptyValidation ==
    [isValid |-> TRUE, errors |-> <<>>, warnings |-> <<>>,
     suggestions |-> <<>>, scientificAccuracy |-> Undefined,
     pedagogicalQuality |-> Undefined]

VInit ==
    /\ codeBuffer = <<>>
    /\ validationResults = EmptyValidation
    /\ emitted = [type |-> "none", validated |-> FALSE, code |-> <<>>,
                  validation |-> EmptyValidation]
    /\ written = <<>>
    /\ completed = FALSE

\* variant: the chunk is put in front of the buffer
transformCode_prepends(content) ==
    /\ codeBuffer' = <<content>> \o codeBuffer
    /\ emitted' = [type |-> "code", validated |-> TRUE,
                   code |-> codeBuffer',
                   validation |-> validateIncremental(codeBuffer', content)]
    /\ written' = Append(written, content)
    /\ UNCHANGED <<validationResults, completed>>

\* transform() on a chunk {type: 'code', content}
transformCode(content) ==
    /\ codeBuffer' = Append(codeBuffer, content)
    /\ emitted' = [type |-> "code", validated |-> TRUE,
                   code |-> codeBuffer',
                   validation |-> validateIncremental(codeBuffer', content)]
    /\ written' = Append(written, content)
    /\ UNCHANGED <<validationResults, completed>>

\* transform() on a chunk {type: 'complete'}
transformComplete ==
    /\ emitted' = [type |-> "validation", validated |-> TRUE,
                   code |-> codeBuffer,
                   validation |-> validateComplete(codeBuffer)]
    /\ completed' = TRUE
    /\ UNCHANGED <<codeBuffer, validationResults, written>>

\* one code chunk written to a validation stream of the validator
TransformCode(content) ==
    /\ Len(codeBuffer) < MaxFragments
    /\ transformCode(content)
    /\ UNCHANGED <<cvars, rvars, svars, xvars, ovars>>

\* the completion signal written to a validation stream
TransformComplete ==
    /\ transformComplete
    /\ UNCHANGED <<cvars, rvars, svars, xvars, ovars>>

\* transform() on any other chunk (a code chunk with empty content): passed on
TransformOther ==
    /\ emitted' = [type |-> "code", validated |-> FALSE, code |-> codeBuffer,
                   validation |-> EmptyValidation]
    /\ UNCHANGED <<codeBuffer, validationResults, written, completed,
                   cvars, rvars, svars, xvars, ovars>>

reset ==
    /\ codeBuffer' = <<>>
    /\ validationResults' = EmptyValidation
    /\ written' = <<>>
    /\ completed' = FALSE
    /\ UNCHANGED <<emitted, cvars, rvars, svars, xvars, ovars>>

(***************************************************************************)
(* Requests served by one AdvancedEducationalOrchestrator.  All of them    *)
(* use the orchestrator's one StreamingValidator; a streaming request      *)
(* yields between two chunks, so other requests may run in between.        *)
(***************************************************************************)
\* code a provider may return, as lists of chunks
CodePool ==
    { <<SelectContainer, AddLabel>>, <<SelectBody>>,
      <<OpenFunction, CloseBlock>> }

SInit ==
    requests = [r \in 1..MaxSessions |->
                   [state |-> "idle", streaming |-> FALSE, code |-> <<>>,
                    next |-> 0, finalCode |-> <<>>]]

\* the non-streaming branch of generateVisualization: executeWithModel,
\* validator.reset(), validateCode(generatedCode), all in one turn of the
\* event loop once the provider has answered
generateNonStreaming(r, generatedCode) ==
    /\ requests[r].state = "idle"
    /\ codeBuffer' = generatedCode
    /\ validationResults' = EmptyValidation
    /\ written' = generatedCode
    /\ completed' = TRUE
    /\ emitted' = [type |-> "validation", validated |-> TRUE,
                   code |-> codeBuffer',
                   validation |-> validateComplete(codeBuffer')]
    /\ requests' = [requests EXCEPT ![r] =
                       [state |-> "done", streaming |-> FALSE,
                        code |-> generatedCode, next |-> 0,
                        finalCode |-> codeBuffer']]
    /\ UNCHANGED <<cvars, rvars, xvars, ovars>>

\* generateWithStreaming: createValidationStream() and the provider's answer
generateWithStreaming(r, fullCode) ==
    /\ requests[r].state = "idle"
    /\ requests' = [requests EXCEPT ![r] =
                       [state |-> "streaming", streaming |-> TRUE,
                        code |-> fullCode, next |-> 1, finalCode |-> <<>>]]
    /\ UNCHANGED <<vvars, cvars, rvars, xvars, ovars>>

\* one iteration of the loop of simulateStreamingGeneration
streamWrite(r) ==
    /\ requests[r].state = "streaming"
    /\ requests[r].next <= Len(requests[r].code)
    /\ transformCode(requests[r].code[requests[r].next])
    /\ requests' = [requests EXCEPT ![r].next = @ + 1]
    /\ UNCHANGED <<cvars, rvars, xvars, ovars>>

\* stream.write({type: 'complete'}); stream.end()
streamComplete(r) ==
    /\ requests[r].state = "streaming"
    /\ requests[r].next > Len(requests[r].code)
    /\ transformComplete
    /\ requests' = [requests EXCEPT ![r].state = "done",
                                    ![r].finalCode = codeBuffer]
    /\ UNCHANGED <<cvars, rvars, xvars, ovars>>

(***************************************************************************)
(* Execution of a routing decision.  A provider answer either fails or     *)
(* completes with a content that may be absent (null, or a block that is   *)
(* not text) or empty.  Latency bookkeeping is left out.                   *)
(***************************************************************************)
ProviderResponse(f, h, c) == [failed |-> f, hasContent |-> h, content |-> c]

ResponsePool ==
    { ProviderResponse(TRUE, FALSE, <<>>),
      ProviderResponse(FALSE, FALSE, <<>>) }
    \cup { ProviderResponse(FALSE, TRUE, c) : c \in ContentPool }

\* tiers a decision may carry: the catalog, and tiers of the other providers
ModelPool ==
    { models[i].value : i \in 1..Len(models) }
    \cup { [name |-> "claude-3-sonnet", provider |-> "anthropic",
            model |-> "claude-3-sonnet", costPerToken |-> 30, latency |-> 600,
            capabilities |-> {"scientific_validation"}],
           [name |-> "local-llama", provider |-> "local",
            model |-> "llama-3-70b", costPerToken |-> 1, latency |-> 200,
            capabilities |-> {"simple_parameter_adjustment"}] }

Call(client, model) == [client |-> client, model |-> model]

Returned(result, calls) ==
    [threw |-> FALSE, result |-> result, message |-> <<>>, calls |-> calls]

Threw(message, calls) ==
    [threw |-> TRUE, result |-> <<>>, message |-> message, calls |-> calls]

\* response.choices[0].message.content || ''
executeOpenAI(model, client, response) ==
    IF ~client THEN Threw(<<"OpenAI client not initialized">>, <<>>)
    ELSE IF response.failed
         THEN Threw(<<"provider error">>, <<Call("openai", model)>>)
         ELSE Returned(IF response.hasContent THEN response.content ELSE <<>>,
                       <<Call("openai", model)>>)

\* response.content[0].type === 'text' ? response.content[0].text : ''
executeAnthropic(model, client, response) ==
    IF ~client THEN Threw(<<"Anthropic client not initialized">>, <<>>)
    ELSE IF response.failed
         THEN Threw(<<"provider error">>, <<Call("anthropic", model)>>)
         ELSE Returned(IF response.hasContent THEN response.content ELSE <<>>,
                       <<Call("anthropic", model)>>)

\* the catch block: every failure is wrapped
rethrow(model, outcome) ==
    IF outcome.threw
    THEN Threw(<<"Failed to execute with", model.name, ":">> \o outcome.message,
               outcome.calls)
    ELSE outcome

\* variant: an Anthropic decision without an Anthropic client fails
executeWithModel_noFallback(model, openaiClient, anthropicClient, response) ==
    rethrow(model,
        CASE model.provider = "openai" ->
                 executeOpenAI(model.model, openaiClient, response)
          [] model.provider = "anthropic" ->
                 executeAnthropic(model.model, anthropicClient, response)
          [] model.provider = "local" ->
                 executeOpenAI("gpt-3.5-turbo", openaiClient, response)
          [] OTHER -> Threw(<<"Unknown provider:", model.provider>>, <<>>))

executeWithModel(model, openaiClient, anthropicClient, response) ==
    rethrow(model,
        CASE model.provider = "openai" ->
                 executeOpenAI(model.model, openaiClient, response)
          [] model.provider = "anthropic" ->
                 IF anthropicClient
                 THEN executeAnthropic(model.model, anthropicClient, response)
                 ELSE executeOpenAI("gpt-4", openaiClient, response)
          [] model.provider = "local" ->
                 executeOpenAI("gpt-3.5-turbo", openaiClient, response)
          [] OTHER -> Threw(<<"Unknown provider:", model.provider>>, <<>>))

\* content.trim() === ''
isBlank(content) == \A i \in 1..Len(content) : content[i] = Blank

\* variant: a failed provider call is made once more
generate_retries(client, response) ==
    IF ~client
    THEN Threw(<<"Model router not initialized. Call initialize() first.">>,
               <<>>)
    ELSE IF response.failed
         THEN Threw(<<"Failed to generate visualization:", "provider error">>,
                    <<Call("openai", "gpt-4-turbo-preview"),
                      Call("openai", "gpt-4-turbo-preview")>>)
         ELSE Returned(response.content,
                       <<Call("openai", "gpt-4-turbo-preview")>>)

\* SimpleModelRouter.generate
generate(client, response) ==
    IF ~client
    THEN Threw(<<"Model router not initialized. Call initialize() first.">>,
               <<>>)
    ELSE IF response.failed
         THEN Threw(<<"Failed to generate visualization:", "provider error">>,
                    <<Call("openai", "gpt-4-turbo-preview")>>)
         ELSE LET content == IF response.hasContent THEN response.content
                                                    ELSE <<>>
              IN IF isBlank(content)
                 THEN Threw(<<"Failed to generate visualization:",
                              "OpenAI returned empty content">>,
                            <<Call("openai", "gpt-4-turbo-preview")>>)
                 ELSE Returned(content,
                               <<Call("openai", "gpt-4-turbo-preview")>>)

NoExecution ==
    [called |-> FALSE, model |-> MapGet(models, "fast"), openai |-> FALSE,
     anthropic |-> FALSE, response |-> ProviderResponse(TRUE, FALSE, <<>>),
     outcome |-> Returned(<<>>, <<>>)]

XInit ==
    /\ openai = FALSE
    /\ anthropic = FALSE
    /\ execution = NoExecution
    /\ simpleOpenai = FALSE
    /\ generation = NoExecution
    /\ simpleCall = [state |-> "none", userPrompt |-> <<>>, complexity |-> "",
                     responses |-> <<>>, calls |-> <<>>, error |-> <<>>,
                     code |-> <<>>, validation |-> <<>>]

\* EducationalModelRouter.initialize; sdk: the Anthropic SDK could be loaded
initialize(openaiKey, anthropicKey, sdk) ==
    /\ openai' = (openai \/ openaiKey # "")
    /\ anthropic' = (anthropic \/ (anthropicKey # "" /\ sdk))
    /\ UNCHANGED <<execution, simpleOpenai, generation, simpleCall, cvars,
                   rvars, vvars, svars, ovars>>

\* SimpleModelRouter.initialize: throws on a missing key
initializeSimple(openaiKey) ==
    /\ openaiKey # ""
    /\ simpleOpenai' = TRUE
    /\ UNCHANGED <<openai, anthropic, execution, generation, simpleCall,
                   cvars, rvars, vvars, svars, ovars>>

ExecuteWithModel(model, response) ==
    /\ execution' =
           [called |-> TRUE, model |-> model, openai |-> openai,
            anthropic |-> anthropic, response |-> response,
            outcome |-> executeWithModel(model, openai, anthropic, response)]
    /\ UNCHANGED <<openai, anthropic, simpleOpenai, generation, simpleCall,
                   cvars, rvars, vvars, svars, ovars>>

Generate(response) ==
    /\ generation' =
           [called |-> TRUE, model |-> MapGet(models, "validation"),
            openai |-> simpleOpenai, anthropic |-> FALSE,
            response |-> response,
            outcome |-> generate(simpleOpenai, response)]
    /\ UNCHANGED <<openai, anthropic, simpleOpenai, execution, simpleCall,
                   cvars, rvars, vvars, svars, ovars>>

(***************************************************************************)
(* EducationalValidator and the SimpleEducationalOrchestrator.  Scores are *)
(* the source's numbers, 0..100.  A generated code is a list of fragments  *)
(* without line breaks; "<fence javascript>" and "<fence>" are the fences of a      *)
(* markdown code block.  The prompt sent to the model does not constrain   *)
(* the answer, so the template lookup and the prompt texts are left out.   *)
(***************************************************************************)
\* both fences are replaced by '', then trim()
RECURSIVE cleanCode(_)
cleanCode(code) ==
    LET unfenced == SelectSeq(code, LAMBDA f :
                        f \notin {"<fence javascript>", "<fence>"})
    IN IF unfenced # <<>> /\ unfenced[1] = Blank
       THEN cleanCode(Tail(unfenced))
       ELSE IF unfenced # <<>> /\ unfenced[Len(unfenced)] = Blank
            THEN cleanCode(SubSeq(unfenced, 1, Len(unfenced) - 1))
            ELSE unfenced

\* EducationalValidator.validate with context {subject, complexity}
validate(code, subject, complexity) ==
    LET cleaned == cleanCode(code)
        count(f) == Cardinality({i \in 1..Len(cleaned) : cleaned[i] = f})
        push(list, cond, x) == IF cond THEN Append(list, x) ELSE list
        \* validateSecurity: no fragment holds a DANGEROUS_PATTERNS entry,
        \* fetch(, XMLHttpRequest or import(
        security == push(push(<<>>, test({}, cleaned),
                       "Potentially dangerous pattern detected"),
                       test({}, cleaned),
                       "External resource loading is not allowed")
        \* validateSyntax
        errors ==
            push(push(push(security,
                ~test({SelectContainer, SelectBody}, cleaned),
                "Code does not appear to use D3.js library"),
                ~test({SelectContainer}, cleaned),
                "Code must target the #visualization container"),
                count(OpenFunction) # count(CloseBlock),
                "Mismatched brackets detected")
        \* BEST_PRACTICES and the interactive patterns
        hasComments == test({}, cleaned)
        hasLabels == test({AddLabel}, cleaned)
        hasUnits == test({}, cleaned)
        hasParameters == test({}, cleaned)
        hasAnimation == test({}, cleaned)
        interactiveCount ==
            Cardinality({p \in {{OnClick}} : test(p, cleaned)})
        \* validateScientificAccuracy
        physics ==
            100 - (IF subject = "physics" /\ test({DrawPendulum}, cleaned)
                      /\ ~test({}, cleaned) THEN 20 ELSE 0)
                - (IF subject = "physics" /\ ~hasUnits THEN 15 ELSE 0)
        scientificScore ==
            IF test({}, cleaned) THEN Min({physics + 10, 100}) ELSE physics
        \* assessPedagogicalQuality
        pedagogicalScore ==
            Min({60 + (IF hasComments THEN 10 ELSE 0)
                    + (IF hasLabels THEN 10 ELSE 0)
                    + (IF hasParameters THEN 10 ELSE 0)
                    + (IF hasAnimation THEN 10 ELSE 0), 100})
        \* assessInteractivity
        interactivityScore == Min({40 + 10 * interactiveCount, 100})
        \* assessCodeQuality: one line, not indented, no resize handler, no
        \* try or catch
        longLines == bufferLength(cleaned) > 100
        codeQualityScore == Min({70 - (IF longLines THEN 10 ELSE 0), 100})
        \* calculateOverallScore: Math.round of the weighted sum
        overallScore ==
            (30 * scientificScore + 30 * pedagogicalScore
               + 25 * interactivityScore + 15 * codeQualityScore + 50) \div 100
        \* validateEducationalRequirements, then assessCodeQuality
        warnings ==
            push(push(push(push(<<>>,
                ~test({OnClick}, cleaned),
                "Visualization lacks interactive elements"),
                ~test({AddLabel}, cleaned),
                "Code lacks comments or labels for clarity"),
                ~test({}, cleaned) /\ bufferLength(cleaned) > 500,
                "Complex visualization without clear mathematical foundations"),
                longLines,
                "Code has very long lines, consider breaking them up")
        suggestions ==
            push(push(push(push(<<>>,
                ~hasComments,
                "Add comments to explain the visualization logic"),
                ~hasLabels,
                "Add labels to axes and important elements"),
                interactiveCount < 2,
                "Consider adding more interactive elements (sliders, zoom, drag)"),
                complexity = "basic" /\ overallScore < 70,
                "Consider simplifying the visualization for basic level")
    IN [isValid |-> errors = <<>>,
        errors |-> errors,
        warnings |-> warnings,
        score |-> [overall |-> overallScore,
                   scientificAccuracy |-> scientificScore,
                   pedagogicalQuality |-> pedagogicalScore,
                   interactivity |-> interactivityScore,
                   codeQuality |-> codeQualityScore],
        suggestions |-> suggestions]

\* the subject and the level a prompt suggests; the concept only selects a
\* prompt template
detectEducationalConcept(userPrompt) ==
    LET physics == {"pendulum", "swing", "wave", "frequency", "amplitude",
                    "projectile", "trajectory", "force", "newton", "momentum",
                    "energy", "work", "power"}
        math == {"derivative", "tangent", "slope", "integral", "vector",
                 "magnitude", "direction", "matrix", "linear", "probability",
                 "statistics", "distribution"}
        chem == {"molecule", "compound", "reaction", "equilibrium",
                 "periodic", "element", "atomic", "acid", "base", "ph"}
    IN [subject |->
            IF Matches(userPrompt, chem) THEN "chemistry"
            ELSE IF Matches(userPrompt, math) THEN "mathematics"
            ELSE "physics",
        suggestedLevel |->
            IF Matches(userPrompt, {"simple", "basic", "elementary", "begin"})
            THEN "basic"
            ELSE IF Matches(userPrompt, {"chaos", "fourier", "quantum",
                                         "differential", "multiple"})
            THEN "advanced"
            ELSE "intermediate"]

\* SimpleEducationalOrchestrator.generateVisualization: response answers the
\* generation call and improved the call of improveVisualization
generateVisualization(userPrompt, complexity, response, improved) ==
    LET detected == detectEducationalConcept(userPrompt)
        level == IF complexity # "" THEN complexity
                                    ELSE detected.suggestedLevel
        first == generate(simpleOpenai, response)
        cleanedCode == cleanCode(first.result)
        validationResult == validate(cleanedCode, detected.subject, level)
        improve == \/ ~validationResult.isValid
                   \/ validationResult.score.overall < 70
        second == generate(simpleOpenai, improved)
        started == [state |-> "threw", userPrompt |-> userPrompt,
                    complexity |-> complexity, responses |-> <<response>>,
                    calls |-> first.calls, error |-> <<>>, code |-> <<>>,
                    validation |-> <<>>]
        improving == [started EXCEPT !.responses = <<response, improved>>,
                                     !.calls = first.calls \o second.calls]
        verdict ==
            [isValid |-> validationResult.isValid,
             score |-> validationResult.score.overall,
             feedback |->
                 [i \in 1..Len(validationResult.errors) |->
                     validationResult.errors[i]]
                 \o validationResult.warnings
                 \o validationResult.suggestions]
    IN /\ simpleCall' =
           IF first.threw
           THEN [started EXCEPT !.error =
                    <<"Failed to generate visualization:">> \o first.message]
           ELSE IF improve /\ second.threw
           THEN [improving EXCEPT !.error =
                    <<"Failed to generate visualization:">> \o second.message]
           ELSE IF improve
           THEN [improving EXCEPT !.state = "returned",
                                  !.code = second.result,
                                  !.validation = verdict]
           ELSE [started EXCEPT !.state = "returned", !.code = cleanedCode,
                                !.validation = verdict]
       /\ UNCHANGED <<openai, anthropic, simpleOpenai, execution, generation,
                      cvars, rvars, vvars, svars, ovars>>

(***************************************************************************)
(* Cost monitor.  Prices are per 1000 tokens, prices and costs in          *)
(* millionths of a dollar (rounded down), timestamps in hours counted      *)
(* from the start of the month.                                            *)
(***************************************************************************)
pricing ==
    << [key |-> "gpt-4-turbo",
        value |-> [prompt |-> 10000, completion |-> 30000]],
       [key |-> "gpt-4", value |-> [prompt |-> 30000, completion |-> 60000]],
       [key |-> "gpt-3.5-turbo",
        value |-> [prompt |-> 500, completion |-> 1500]],
       [key |-> "claude-3-opus",
        value |-> [prompt |-> 15000, completion |-> 75000]],
       [key |-> "claude-3-sonnet",
        value |-> [prompt |-> 3000, completion |-> 15000]],
       [key |-> "claude-3-haiku",
        value |-> [prompt |-> 250, completion |-> 1250]],
       [key |-> "mixtral-8x7b", value |-> [prompt |-> 270, completion |-> 270]],
       [key |-> "llama-3-70b", value |-> [prompt |-> 800, completion |-> 800]],
       [key |-> "custom", value |-> [prompt |-> 100, completion |-> 100]] >>

\* (tokens / 1000) * price
tokenCost(tokens, price) ==
    (tokens \div 1000) * price + ((tokens % 1000) * price) \div 1000

\* the cost of the entry trackUsage appends
usageCost(model, usage, cached) ==
    LET price == IF MapHas(pricing, model) THEN MapGet(pricing, model)
                                           ELSE MapGet(pricing, "custom")
        promptCost ==
            IF cached /\ usage.cachedTokens # 0
            THEN tokenCost(usage.cachedTokens, price.prompt) \div 10
                 + tokenCost(usage.promptTokens - usage.cachedTokens,
                             price.prompt)
            ELSE tokenCost(usage.promptTokens, price.prompt)
    IN promptCost + tokenCost(usage.completionTokens, price.completion)

\* getCostSummary(startTime, endTime).totalCost
totalCost(entries, start, end) ==
    SumSeq([i \in 1..Len(entries) |->
               IF entries[i].timestamp >= start /\ entries[i].timestamp <= end
               THEN entries[i].cost ELSE 0])

\* the limits the orchestrator sets: 5, 50 and 400 dollars
budgetLimits ==
    [hourly |-> 5000000, daily |-> 50000000, monthly |-> 400000000]

\* percentUsed >= 100, >= 90, >= 75
emitBudgetAlert(currentSpend, limit, period) ==
    IF currentSpend >= limit
    THEN <<[type |-> "exceeded", period |-> period]>>
    ELSE IF currentSpend >= (limit \div 10) * 9
         THEN <<[type |-> "critical", period |-> period]>>
         ELSE IF currentSpend >= (limit \div 4) * 3
              THEN <<[type |-> "warning", period |-> period]>>
              ELSE <<>>

\* the 'budgetAlert' events of one checkBudgetAlerts call
checkBudgetAlerts(entries, time) ==
    emitBudgetAlert(totalCost(entries, time - 1, time),
                    budgetLimits.hourly, "hourly")
    \o emitBudgetAlert(totalCost(entries, time - 24, time),
                       budgetLimits.daily, "daily")
    \o emitBudgetAlert(totalCost(entries, 0, time),
                       budgetLimits.monthly, "monthly")

\* costEntries after trackUsage
trackUsage(entries, time, model, provider, usage, cached) ==
    Append(entries,
           [timestamp |-> time, model |-> model, provider |-> provider,
            cost |-> usageCost(model, usage, cached)])

(***************************************************************************)
(* generateVisualization of the AdvancedEducationalOrchestrator, without   *)
(* the streaming option, one call at a time.  The retrieval system and     *)
(* the knowledge base return nothing and are left out.                     *)
(***************************************************************************)
\* answers of the provider: a failure, no content, code
OrchestratorResponses ==
    { ProviderResponse(TRUE, FALSE, <<>>),
      ProviderResponse(FALSE, FALSE, <<>>),
      ProviderResponse(FALSE, TRUE, <<SelectContainer, AddLabel>>) }

analyzeTaskType(prompt) ==
    IF Matches(prompt, {"adjust", "change parameter"})
    THEN "simple_parameter_adjustment"
    ELSE IF Matches(prompt, {"interactive", "animation"})
    THEN "interactive_features"
    ELSE IF Matches(prompt, {"prove", "derive"})
    THEN "scientific_validation"
    ELSE IF Matches(prompt, {"complex", "advanced"})
    THEN "complex_educational_concept"
    ELSE "visualization_generation"

roleLabel(role) ==
    CASE role = "user" -> "user:"
      [] role = "assistant" -> "assistant:"
      [] OTHER -> "system:"

\* buildEnhancedContext(compressed, [], [])
buildEnhancedContext(compressedHistory) ==
    LET last == sliceLast(compressedHistory, 5)
    IN <<"##", "Conversation", "Context">>
       \o Flatten([i \in 1..Len(last) |->
                      <<roleLabel(last[i].role)>> \o last[i].content])

OInit ==
    /\ call = [state |-> "none", userPrompt |-> <<>>, optimizationGoal |-> "",
               maxRetries |-> 0, retriesLeft |-> 0, attempts |-> 0,
               error |-> <<>>, alerts |-> <<>>]
    /\ costEntries = <<>>
    /\ now = 0

\* a caller invokes generateVisualization(userPrompt, options)
GenerateVisualization(userPrompt, optimizationGoal, maxRetries) ==
    /\ call.state # "running"
    /\ call' = [state |-> "running", userPrompt |-> userPrompt,
                optimizationGoal |-> optimizationGoal,
                maxRetries |-> maxRetries, retriesLeft |-> maxRetries,
                attempts |-> 0, error |-> <<>>, alerts |-> <<>>]
    /\ UNCHANGED <<costEntries, now, cvars, rvars, vvars, svars, xvars>>

\* one pass through the body of generateVisualization: the try block up to
\* its return, or up to the failure and the catch block
Attempt(response) ==
    LET userTurn == ConversationTurn("user", call.userPrompt, "")
        history == Append(conversationHistory, userTurn)
        segments == segmentByTopics(history)
        mem == updateMemoryLayers(memoryLayers, segments)
        compressed == priorityBasedCompression(mem, 8000)
        compressedTokens == countTokens(compressed)
        enhancedContext == buildEnhancedContext(compressed)
        promptLength ==
            textLength(call.userPrompt) + textLength(enhancedContext) + 1
        taskType == analyzeTaskType(call.userPrompt)
        complexity == taskComplexityScores[taskType]
        selected == checkCapability(
                        selectModel(complexity,
                                    routingThresholds[call.optimizationGoal],
                                    analyzePrompt(call.userPrompt)),
                        taskType)
        estimatedCost == estimateTokens(promptLength) * selected.model.costPerToken
        outcome == executeWithModel(selected.model, openai, anthropic, response)
        generatedCode == outcome.result
        usage == [promptTokens |-> (promptLength + 3) \div 4,
                  completionTokens |-> (bufferLength(generatedCode) + 3) \div 4,
                  cachedTokens |-> 0]
        entries == trackUsage(costEntries, now, selected.model.model,
                              selected.model.provider, usage, FALSE)
    IN /\ call.state = "running"
       /\ Len(conversationHistory) + 2 <= MaxHistory
       /\ memoryLayers' = mem
       /\ usageMetrics' =
              updateMetrics(usageMetrics, selected.model.name, estimatedCost)
       /\ routingRequest' =
              [taskType |-> taskType, userPrompt |-> call.userPrompt,
               context |-> enhancedContext,
               optimizationGoal |-> call.optimizationGoal]
       /\ routingDecision' =
              [model            |-> selected.model,
               reason           |-> selected.reason,
               estimatedCost    |-> estimatedCost,
               estimatedLatency |-> selected.model.latency,
               confidence       |->
                   calculateConfidence(selected.model, taskType, complexity)]
       /\ execution' =
              [called |-> TRUE, model |-> selected.model, openai |-> openai,
               anthropic |-> anthropic, response |-> response,
               outcome |-> outcome]
       /\ IF outcome.threw
          THEN /\ conversationHistory' = history
               /\ compressionResult' =
                      [compressed        |-> compressed,
                       compressionRatio  |->
                           <<compressedTokens, countTokens(history)>>,
                       preservedConcepts |-> mem.educationalConcepts,
                       tokenCount        |-> compressedTokens]
               /\ lastMaxTokens' = 8000
               /\ repeated' = FALSE
               /\ retained' =
                      [i \in 1..Len(segments) |->
                          [key   |-> segments[i].key,
                           turns |-> segments[i].value,
                           value |-> retainedIndices(segments[i].value,
                                                     Len(segments[i].value))]]
               /\ call' = IF call.retriesLeft > 0
                          THEN [call EXCEPT !.retriesLeft = @ - 1,
                                            !.attempts = @ + 1]
                          ELSE [call EXCEPT !.state = "threw",
                                            !.attempts = @ + 1,
                                            !.error = outcome.message]
               /\ UNCHANGED <<vvars, costEntries>>
          ELSE /\ conversationHistory' =
                      Append(history,
                             ConversationTurn("assistant", generatedCode, ""))
               /\ compressionResult' = NoResult
               /\ lastMaxTokens' = -1
               /\ repeated' = FALSE
               /\ retained' = <<>>
               /\ codeBuffer' = generatedCode
               /\ validationResults' = EmptyValidation
               /\ written' = generatedCode
               /\ completed' = TRUE
               /\ emitted' = [type |-> "validation", validated |-> TRUE,
                              code |-> codeBuffer',
                              validation |-> validateComplete(codeBuffer')]
               /\ costEntries' = entries
               /\ call' = [call EXCEPT !.state = "returned",
                                       !.attempts = @ + 1,
                                       !.alerts = checkBudgetAlerts(entries, now)]
       /\ UNCHANGED <<now, svars, openai, anthropic, simpleOpenai, generation,
                      simpleCall>>

\* an hour passes
Tick ==
    /\ now < MaxClock
    /\ now' = now + 1
    /\ UNCHANGED <<call, costEntries, cvars, rvars, vvars, svars, xvars>>

(***************************************************************************)
(* Specifications: one per subsystem, each leaving the others untouched    *)
(***************************************************************************)
Init == CInit /\ RInit /\ VInit /\ SInit /\ XInit /\ OInit

CNext ==
    \/ \E turn \in TurnPool : AddTurn(turn)
    \/ \E maxTokens \in Budgets : compressContext(maxTokens)

RNext ==
    \E taskType \in TaskTypes, userPrompt \in PromptPool,
       context \in ContextPool, optimizationGoal \in OptimizationGoals :
        routeRequest(taskType, userPrompt, context, optimizationGoal)

VNext ==
    \/ \E content \in FragmentPool : TransformCode(content)
    \/ TransformComplete
    \/ TransformOther
    \/ reset

Spec == Init /\ [][CNext]_vars

\* the engine fed with turns that hold no key decision
QuietNext ==
    \/ \E turn \in QuietPool : AddTurn(turn)
    \/ \E maxTokens \in Budgets : compressContext(maxTokens)

SpecSmallHistory == Init /\ [][QuietNext]_vars

\* one engine serving calls whose histories need not extend one another
AnyHistoryNext ==
    \/ \E turn \in {t \in TurnPool : t.role = "user" /\ KeyDecisionOf[t]} :
           \/ AddTurn(turn)
           \/ StartHistory(turn)
    \/ \E maxTokens \in Budgets : compressContext(maxTokens)

SpecAnyHistory == Init /\ [][AnyHistoryNext]_vars

SpecRouter == Init /\ [][RNext]_vars

SpecValidator == Init /\ [][VNext]_vars

SNext ==
    \E r \in 1..MaxSessions :
        \/ \E generatedCode \in CodePool : generateNonStreaming(r, generatedCode)
        \/ \E fullCode \in CodePool : generateWithStreaming(r, fullCode)
        \/ streamWrite(r)
        \/ streamComplete(r)

SpecSession == Init /\ [][SNext]_vars

XNext ==
    \/ \E openaiKey \in {"", "sk-key"}, anthropicKey \in {"", "sk-key"}, sdk \in BOOLEAN :
           initialize(openaiKey, anthropicKey, sdk)
    \/ \E openaiKey \in {"", "sk-key"} : initializeSimple(openaiKey)
    \/ \E model \in ModelPool, response \in ResponsePool :
           ExecuteWithModel(model, response)
    \/ \E response \in ResponsePool : Generate(response)

SpecExecute == Init /\ [][XNext]_vars

\* prompts and the complexity option ("": absent) a caller may pass to the
\* SimpleEducationalOrchestrator
SimpleNext ==
    \/ \E openaiKey \in {"", "sk-key"} : initializeSimple(openaiKey)
    \/ \E userPrompt \in { <<"show", "gravity">>, <<"simple", "pendulum">>,
                            <<"derivative", "of", "a", "wave">> },
          complexity \in {"", "basic", "advanced"},
          response, improved \in ResponsePool \cup
              { ProviderResponse(FALSE, TRUE,
                    <<"<fence javascript>", SelectContainer, AddLabel, OnClick,
                      "<fence>">>) } :
           generateVisualization(userPrompt, complexity, response, improved)

SpecSimple == Init /\ [][SimpleNext]_vars

ONext ==
    \/ \E openaiKey \in {"", "sk-key"} : initialize(openaiKey, "", FALSE)
    \/ \E userPrompt \in OrchestratorPrompts,
          optimizationGoal \in {"balanced"}, maxRetries \in {0, 2} :
           GenerateVisualization(userPrompt, optimizationGoal, maxRetries)
    \/ \E response \in OrchestratorResponses : Attempt(response)
    \/ Tick

SpecOrchestrator == Init /\ [][ONext]_vars

(***************************************************************************)
(* Properties of the compression engine (specification Spec)               *)
(***************************************************************************)
called == lastMaxTokens >= 0

maxActiveTurnTokens ==
    IF memoryLayers.activeContext = <<>> THEN 0
    ELSE Max({turnTokens(memoryLayers.activeContext[i]) :
                 i \in 1..Len(memoryLayers.activeContext)})

\* C1: the token count returned by compressContext(H, B) exceeds B by at most
\* the token size of one active-context turn.
C1_TokenCountWithinSlack ==
    called =>
        compressionResult.tokenCount <= lastMaxTokens + maxActiveTurnTokens

\* C2: a compressContext call that repeats the previous call (same history,
\* same budget, same engine) returns the same result.
C2_Idempotent ==
    [][(called /\ lastMaxTokens' = lastMaxTokens)
          => compressionResult' = compressionResult]_vars

\* a repeated call whose output holds synthetic summary turns
C2_Witness ==
    /\ repeated
    /\ memoryLayers.projectMemory # <<>>
    /\ memoryLayers.semanticCache # <<>>
    /\ Len(compressionResult.compressed) > Len(memoryLayers.activeContext)

\* C3: for a non-empty history with a positive token count the compression
\* ratio is in (0, 1].
C3_RatioInUnitInterval ==
    (called /\ conversationHistory # <<>>
        /\ compressionResult.compressionRatio[2] > 0)
    => /\ compressionResult.compressionRatio[1] > 0
       /\ compressionResult.compressionRatio[1]
              <= compressionResult.compressionRatio[2]

similarTurns(t1, t2) ==
    aboveThreshold(calculateSimilarity(SimplifiedOf[t1], SimplifiedOf[t2]))

\* C4: of two turns of one topic whose normalized contents have Jaccard
\* similarity above 0.85, at most one is retained by redundancy compression.
C4_AtMostOneSimilarSurvives ==
    \A s \in 1..Len(retained) :
        \A i, j \in 1..Len(retained[s].turns) :
            (i < j /\ similarTurns(retained[s].turns[i], retained[s].turns[j]))
            => ~(i \in Range(retained[s].value) /\ j \in Range(retained[s].value))

\* a topic with a dropped near-duplicate, a different turn between the two
C4_Witness ==
    \E s \in 1..Len(retained) :
        /\ Len(retained[s].turns) = 3
        /\ Len(retained[s].value) = 2
        /\ similarTurns(retained[s].turns[1], retained[s].turns[3])
        /\ retained[s].turns[1] # retained[s].turns[3]

(***************************************************************************)
(* Properties of the router (specification SpecRouter)                     *)
(***************************************************************************)
routed == routingRequest # NoRequest

isFallback(reason) ==
    reason # <<>> /\ reason[1] = "Fallback: original model not capable of"

\* C5: routeRequest returns a tier whose capability set contains the task
\* type, or a reason that records a fallback.
C5_CapableOrFallback ==
    routed =>
        \/ routingRequest.taskType \in routingDecision.model.capabilities
        \/ isFallback(routingDecision.reason)

\* a request for which the tier picked first lacked the task type
C5_Witness ==
    /\ routed
    /\ isFallback(routingDecision.reason)
    /\ routingRequest.taskType \in routingDecision.model.capabilities

\* C6: the confidence of every routing decision is in [0, 1].
C6_ConfidenceInUnitInterval ==
    routed => (routingDecision.confidence >= 0 /\ routingDecision.confidence <= 10)

\* a decision for a tier that declares the task type
C6_Witness ==
    /\ routed
    /\ routingRequest.taskType \in routingDecision.model.capabilities
    /\ routingDecision.confidence = 8

(***************************************************************************)
(* Properties of the streaming validator (specification SpecValidator)     *)
(***************************************************************************)
finalized == emitted.type = "validation" /\ emitted.validated

hasErrorOfType(errors, t) == \E i \in 1..Len(errors) : errors[i].type = t

\* C7: the final validation of a buffer that does not parse has isValid false,
\* a syntax error, and both sub-scores at their default 1.0.
C7_SyntaxFailureShortCircuits ==
    (finalized /\ ~parses(emitted.code))
    => /\ ~emitted.validation.isValid
       /\ hasErrorOfType(emitted.validation.errors, "syntax")
       /\ emitted.validation.scientificAccuracy = 10
       /\ emitted.validation.pedagogicalQuality = 10

\* a finalized buffer with an unclosed block and no container, label or event
C7_Witness ==
    /\ finalized
    /\ ~parses(emitted.code)
    /\ BindData \in Range(emitted.code)
    /\ SelectContainer \notin Range(emitted.code)

hasEventBinding(code) == OnClick \in Range(code) \/ OnKeydown \in Range(code)

\* C8: the final validation of a buffer that parses and has a #visualization
\* selection, a text label and an event binding is valid with pedagogical
\* quality >= 0.8.
C8_CompleteVisualizationIsValid ==
    (finalized /\ parses(emitted.code)
        /\ SelectContainer \in Range(emitted.code)
        /\ AddLabel \in Range(emitted.code)
        /\ hasEventBinding(emitted.code))
    => /\ emitted.validation.isValid
       /\ emitted.validation.pedagogicalQuality >= 8

\* such a buffer whose event binding is not one of click/mouseover/mousemove/drag
C8_Witness ==
    /\ finalized
    /\ parses(emitted.code)
    /\ SelectContainer \in Range(emitted.code)
    /\ AddLabel \in Range(emitted.code)
    /\ OnKeydown \in Range(emitted.code)
    /\ OnClick \notin Range(emitted.code)

\* C9: the final validation of code that parses and never references
\* #visualization has an educational entry in errors and isValid false.
C9_MissingContainerIsError ==
    (finalized /\ parses(emitted.code) /\ emitted.code # <<>>
        /\ SelectContainer \notin Range(emitted.code))
    => /\ hasErrorOfType(emitted.validation.errors, "educational")
       /\ ~emitted.validation.isValid

\* C10: in every validation result of the validator, incremental or final,
\* isValid is true iff the errors list is empty.
C10_ValidIffNoErrors ==
    emitted.validated =>
        (emitted.validation.isValid <=> emitted.validation.errors = <<>>)

\* an incremental result with a syntax error
C10_Witness ==
    /\ emitted.validated
    /\ emitted.type = "code"
    /\ emitted.validation.errors # <<>>
    /\ ~emitted.validation.isValid

\* C11: a scientific_validation request routed under the quality_focused goal
\* gets the validation tier, whatever its prompt and context.
C11_ScientificQualityGetsValidationTier ==
    (routed /\ routingRequest.taskType = "scientific_validation"
        /\ routingRequest.optimizationGoal = "quality_focused")
    => routingDecision.model.name = "gpt-4"

\* such a request whose prompt asks for no accuracy and whose context is not
\* empty
C11_Witness ==
    /\ routed
    /\ routingRequest.taskType = "scientific_validation"
    /\ routingRequest.optimizationGoal = "quality_focused"
    /\ ~analyzePrompt(routingRequest.userPrompt).requiresHighAccuracy
    /\ routingRequest.context # <<>>
    /\ routingDecision.model = MapGet(models, "validation")
    /\ ~isFallback(routingDecision.reason)

(***************************************************************************)
(* Small histories (specification SpecSmallHistory)                        *)
(***************************************************************************)
occurrences(s, x) == Cardinality({i \in 1..Len(s) : s[i] = x})

\* the same turns, each as often, in any order
sameTurns(s, t) ==
    /\ Len(s) = Len(t)
    /\ \A x \in Range(s) \cup Range(t) : occurrences(s, x) = occurrences(t, x)

fitsBudget(history, maxTokens) == countTokens(history) <= maxTokens

noKeyDecision(history) == \A i \in 1..Len(history) : ~KeyDecisionOf[history[i]]

noNearDuplicate(history) ==
    \A i, j \in 1..Len(history) :
        i < j => ~similarTurns(history[i], history[j])

smallQuietHistory ==
    /\ called
    /\ Len(conversationHistory) <= MAX_ACTIVE_TURNS
    /\ fitsBudget(conversationHistory, lastMaxTokens)
    /\ noKeyDecision(conversationHistory)
    /\ noNearDuplicate(conversationHistory)

allNearIdentical(turns) ==
    \A i, j \in 1..Len(turns) : i < j => similarTurns(turns[i], turns[j])

\* C13: of a topic whose n >= 2 turns are all near-identical to one another,
\* redundancy compression retains exactly one turn, and after the pass the
\* semantic cache holds an entry for that topic.
C13_AllSimilarCollapseToOne ==
    \A s \in 1..Len(retained) :
        (Len(retained[s].turns) >= 2 /\ allNearIdentical(retained[s].turns))
        => /\ Len(retained[s].value) = 1
           /\ MapHas(memoryLayers.semanticCache, retained[s].key)

\* a topic of three such turns, not all the same text
C13_Witness ==
    \E s \in 1..Len(retained) :
        /\ Len(retained[s].turns) = 3
        /\ allNearIdentical(retained[s].turns)
        /\ Cardinality(Range(retained[s].turns)) = 2
        /\ retained[s].value = <<1>>
        /\ MapGet(memoryLayers.semanticCache, retained[s].key)
               = retained[s].turns[1].content

\* C14: once the completion signal has been processed, no code fragment is
\* appended to the code buffer and no final verdict of a changed buffer is
\* produced, until reset() is called.
C14_FinalizedUntilReset ==
    [][(completed /\ completed')
          => /\ codeBuffer' = codeBuffer
             /\ (emitted'.type = "validation" => emitted' = emitted)]_vars

\* C16: the code buffer is the concatenation, in arrival order, of the
\* fragments written since the last reset, and the incremental check of a
\* fragment is computed on the fragments written up to and including it.
C16_FragmentsInArrivalOrder ==
    /\ [](codeBuffer = written)
    /\ [][Len(written') = Len(written) + 1
            => /\ emitted'.type = "code"
               /\ emitted'.validated
               /\ emitted'.code = written']_vars

\* three different fragments written after a reset, the last just checked
C16_Witness ==
    /\ Len(written) = 3
    /\ Cardinality(Range(written)) = 3
    /\ emitted.type = "code"
    /\ emitted.validated
    /\ emitted.code = written
    /\ ~completed

(***************************************************************************)
(* Properties of the requests of one orchestrator (specification           *)
(* SpecSession)                                                            *)
(***************************************************************************)
\* C15: the code buffer on which the final validation of a request is
\* computed holds that request's generated fragments and nothing else.
C15_FinalValidationOnOwnCode ==
    \A r \in 1..MaxSessions :
        requests[r].state = "done" => requests[r].finalCode = requests[r].code

(***************************************************************************)
(* Properties of the execution of a decision (specification SpecExecute)   *)
(***************************************************************************)
\* the provider of the tier cannot be called
unavailable(e) ==
    \/ e.model.provider = "openai" /\ ~e.openai
    \/ e.model.provider = "anthropic" /\ ~e.anthropic
    \/ e.model.provider = "local"

\* C17: executeWithModel fails when the provider of the chosen tier is
\* unavailable and no OpenAI client is configured; with an OpenAI client, a
\* decision for Anthropic without a client, or for a local tier, is sent to
\* OpenAI and fails only if that call fails.
C17_UnavailableProviderFailsOrFallsBack ==
    (execution.called /\ unavailable(execution))
    => IF execution.openai
       THEN /\ Len(execution.outcome.calls) = 1
            /\ execution.outcome.calls[1].client = "openai"
            /\ execution.outcome.threw = execution.response.failed
       ELSE /\ execution.outcome.threw
            /\ execution.outcome.calls = <<>>

\* an Anthropic decision answered with code by the OpenAI client
C17_Witness ==
    /\ execution.called
    /\ execution.model.provider = "anthropic"
    /\ ~execution.anthropic
    /\ execution.openai
    /\ execution.outcome = Returned(<<SelectContainer, AddLabel>>,
                                    <<Call("openai", "gpt-4")>>)

emptyContent(response) ==
    ~response.failed /\ (~response.hasContent \/ response.content = <<>>)

\* C18: when the provider call completes with empty content, the execute
\* operation fails; it never returns the empty text.
C18_EmptyContentIsFailure ==
    /\ (execution.called /\ execution.outcome.calls # <<>>
           /\ emptyContent(execution.response))
       => execution.outcome.threw
    /\ (generation.called /\ generation.outcome.calls # <<>>
           /\ emptyContent(generation.response))
       => generation.outcome.threw

(***************************************************************************)
(* Properties of generateVisualization (specification SpecOrchestrator)    *)
(***************************************************************************)
\* the failure of a missing provider client
configurationError(error) ==
    \E i \in 1..Len(error) :
        error[i] \in {"OpenAI client not initialized",
                      "Anthropic client not initialized"}

\* C19: a generateVisualization call with maxRetries > 0 that fails with a
\* configuration error has made exactly one attempt.
C19_ConfigurationErrorNotRetried ==
    (call.state = "threw" /\ call.maxRetries > 0
        /\ configurationError(call.error))
    => call.attempts = 1

exceeded(alerts) == \E i \in 1..Len(alerts) : alerts[i].type = "exceeded"

\* C20: a generation request whose recorded spend has reached a budget limit
\* does not return a result: it fails with a budget-exceeded failure.
C20_BudgetExceededFailsRequest ==
    call.state = "returned" => ~exceeded(call.alerts)

(***************************************************************************)
(* Properties of the SimpleEducationalOrchestrator (specification          *)
(* SpecSimple)                                                             *)
(***************************************************************************)
\* what the first validation asked for
needsImprovement(validation) == ~validation.isValid \/ validation.score < 70

\* C21: one generateVisualization call of the SimpleEducationalOrchestrator
\* calls the model at most twice, and the second call is the improvement
\* pass that follows an invalid or low-scored first code.
C21_AtMostOneRegeneration ==
    /\ Len(simpleCall.calls) <= 2
    /\ (simpleCall.state = "returned" /\ Len(simpleCall.calls) = 2)
          => needsImprovement(simpleCall.validation)

C21_Witness ==
    /\ simpleCall.state = "returned"
    /\ Len(simpleCall.calls) = 2
    /\ ~simpleCall.validation.isValid

\* the verdict generateVisualization would report for a code
verdictOf(code, userPrompt, complexity) ==
    LET detected == detectEducationalConcept(userPrompt)
        v == validate(code, detected.subject,
                      IF complexity # "" THEN complexity
                                         ELSE detected.suggestedLevel)
    IN [isValid |-> v.isValid, score |-> v.score.overall,
        feedback |-> v.errors \o v.warnings \o v.suggestions]

\* C30: the validation a result of the SimpleEducationalOrchestrator carries
\* is the verdict of the code carried by the same result.
C30_VerdictOfReturnedCode ==
    simpleCall.state = "returned"
    => simpleCall.validation =
           verdictOf(simpleCall.code, simpleCall.userPrompt,
                     simpleCall.complexity)

(***************************************************************************)
(* Further properties of the compression engine (specification Spec)       *)
(***************************************************************************)
\* C22: after a compression pass the active context is the last
\* min(|H|, MAX_ACTIVE_TURNS) turns of the history, in the history's order.
C22_ActiveContextChronological ==
    called => memoryLayers.activeContext
                  = sliceLast(conversationHistory, MAX_ACTIVE_TURNS)

\* the candidates of the last pass in the order they were tried: the active
\* context, the summaries of the project memory, the cached summaries
assemblyCandidates ==
    memoryLayers.activeContext
    \o [i \in 1..Len(memoryLayers.projectMemory) |->
           summaryTurn(memoryLayers.projectMemory[i].key,
                       memoryLayers.projectMemory[i].value)]
    \o [i \in 1..Len(memoryLayers.semanticCache) |->
           cacheTurn(memoryLayers.semanticCache[i].key,
                     memoryLayers.semanticCache[i].value)]

\* S holds the positions of the candidates that were added: a candidate is
\* in S exactly when the tokens added before it plus its own are within
\* maxTokens, or 90% of maxTokens for a cached summary
addedByFit(S) ==
    LET candidates == assemblyCandidates
        cacheTier(k) ==
            k > Len(candidates) - Len(memoryLayers.semanticCache)
        before(k) ==
            SumSeq([j \in 1..(k - 1) |->
                      IF j \in S THEN countTokens(<<candidates[j]>>) ELSE 0])
        selected ==
            SelectSeq([k \in 1..Len(candidates) |-> k], LAMBDA k : k \in S)
    IN /\ compressionResult.compressed
            = [i \in 1..Len(selected) |-> candidates[selected[i]]]
       /\ \A k \in 1..Len(candidates) :
              k \in S <=>
                  10 * (before(k) + countTokens(<<candidates[k]>>))
                      <= (IF cacheTier(k) THEN 9 ELSE 10) * lastMaxTokens

freshCompressed(history, maxTokens) ==
    priorityBasedCompression(
        updateMemoryLayers(EmptyMemory, segmentByTopics(history)), maxTokens)

\* C24: the turns compressContext(H, B) returns are those a new engine
\* returns for (H, B), whatever calls the engine served before.
C24_ResultDependsOnHistoryOnly ==
    called => compressionResult.compressed
                  = freshCompressed(conversationHistory, lastMaxTokens)

(***************************************************************************)
(* Project memory over the calls of one engine (specification              *)
(* SpecAnyHistory)                                                         *)
(***************************************************************************)
\* C25: over the compressContext calls of an engine no topic leaves the
\* project memory and no key decision stored under a topic is lost.
C25_ProjectMemoryGrows ==
    [][\A i \in 1..Len(memoryLayers.projectMemory) :
          LET topic == memoryLayers.projectMemory[i].key
              decisions == memoryLayers.projectMemory[i].value
          IN /\ MapHas(memoryLayers.projectMemory', topic)
             /\ \A d \in Range(decisions) :
                    occurrences(decisions, d)
                        <= occurrences(MapGet(memoryLayers.projectMemory',
                                              topic), d)]_vars

(***************************************************************************)
(* Further properties of the router (specification SpecRouter)             *)
(***************************************************************************)
\* 0.5, +0.3 when the tier declares the task type, +0.2 when a low
\* complexity meets the fastest tier or a high one the strongest; times 10
specifiedConfidence(model, taskType) ==
    LET complexity == taskComplexityScores[taskType]
        declared == IF taskType \in model.capabilities THEN 3 ELSE 0
        aligned ==
            IF \/ complexity < 30000 /\ model = MapGet(models, "fast")
               \/ complexity > 70000 /\ model = MapGet(models, "validation")
            THEN 2 ELSE 0
    IN Min({10, 5 + declared + aligned})

\* C26: the confidence of a routing decision is min(1.0, 0.5 + 0.3 for a
\* declared task type + 0.2 for a complexity aligned with the tier class).
C26_ConfidenceFormula ==
    routed => routingDecision.confidence
                  = specifiedConfidence(routingDecision.model,
                                        routingRequest.taskType)

(***************************************************************************)
(* Scientific accuracy of a final validation (specification SpecValidator) *)
(***************************************************************************)
\* the domain checks of the final pass that a buffer fails
failsGravityCheck(code) ==
    mentionsGravity(code) /\ ~test(scientificPatterns.gravity, code)

failsPendulumCheck(code) ==
    mentionsPendulum(code) /\ ~test(scientificPatterns.pendulumFormula, code)

\* C27: in the final validation of a buffer that parses, scientificAccuracy
\* is in [0, 1], is below 1.0 when the gravity check or the pendulum check
\* fails, and is lower still when both fail.
C27_FailedChecksLowerAccuracy ==
    (finalized /\ parses(emitted.code))
    => /\ emitted.validation.scientificAccuracy \in 0..10
       /\ (failsGravityCheck(emitted.code) \/ failsPendulumCheck(emitted.code))
             => emitted.validation.scientificAccuracy < 10
       /\ (failsGravityCheck(emitted.code) /\ failsPendulumCheck(emitted.code))
             => emitted.validation.scientificAccuracy < 8

(***************************************************************************)
(* The tier picked before the capability check (specification SpecRouter)  *)
(***************************************************************************)
\* the tier routeRequest picked for the last request before it checked the
\* capabilities
pickedFirst ==
    selectModel(taskComplexityScores[routingRequest.taskType],
                routingThresholds[routingRequest.optimizationGoal],
                analyzePrompt(routingRequest.userPrompt)).model

turnsOf(role) ==
    Cardinality({i \in 1..Len(conversationHistory) :
                    conversationHistory[i].role = role})

\* C29: over the attempts of one generateVisualization call the history
\* gains one user turn, with the first attempt, and one assistant turn, with
\* the attempt that succeeds.
C29_OneUserTurnPerCall ==
    [][(call.state = "running" /\ call'.attempts = call.attempts + 1)
         => /\ turnsOf("user")' =
                   turnsOf("user") + (IF call.attempts = 0 THEN 1 ELSE 0)
            /\ turnsOf("assistant")' =
                   turnsOf("assistant")
                       + (IF call'.state = "returned" THEN 1 ELSE 0)]_vars

====
